---------------------------- MODULE Spec2Model ----------------------------
(***************************************************************************)
(* HealthPay claim processor: the /process-claim endpoint (app/main.py)    *)
(* and the six-stage pipeline of ClaimOrchestrator.process_claim           *)
(* (app/agents/orchestrator.py) with its agents and the LLM / PDF services.*)
(*                                                                         *)
(* One request is modelled from dependency resolution to the HTTP answer.  *)
(* The collaborators (UploadFile.read, PyPDF2, the Gemini call) are the    *)
(* environment: each call resolves with one of a small set of replies.     *)
(* Conventions: a Python string is a sequence of pieces (characters or     *)
(* longer chunks), so that an f-string is a concatenation; a JSON value is *)
(* a record [t, s, n, l]; a dict is a set of <<key, value>> pairs;         *)
(* confidences are counted in tenths (9 is 0.9).                           *)
(***************************************************************************)
EXTENDS Integers, Sequences, FiniteSets, TLC

\* ------------------------------------------------------------------ bounds

\* The largest number of files uploaded in one request.
MaxFiles == 2

\* ---------------------------------------------------------- program constants

\* ThreadPoolExecutor(max_workers=3) of PDFService.
PdfWorkers == 3

\* ThreadPoolExecutor(max_workers=5) of LLMService.
LlmWorkers == 5

\* ------------------------------------------------------------- JSON values

JStr(s) == [t |-> "str", s |-> s, n |-> 0, l |-> <<>>]
JNum(n) == [t |-> "num", s |-> <<>>, n |-> n, l |-> <<>>]
JBool(b) == [t |-> "bool", s |-> <<>>, n |-> IF b THEN 1 ELSE 0, l |-> <<>>]
JList(l) == [t |-> "list", s |-> <<>>, n |-> 0, l |-> l]
JNull == [t |-> "null", s |-> <<>>, n |-> 0, l |-> <<>>]
\* What dict.get(key) gives for a key the dict does not hold (Python's None).
JAbsent == [t |-> "absent", s |-> <<>>, n |-> 0, l |-> <<>>]

\* A one-piece string literal.
S(x) == <<x>>

HasKey(d, k) == \E p \in d : p[1] = k
\* dict.get(k): the value under k, None when k is missing.
Get(d, k) == IF HasKey(d, k) THEN (CHOOSE p \in d : p[1] = k)[2] ELSE JAbsent
\* dict.get(k, default)
GetOr(d, k, default) == IF HasKey(d, k) THEN (CHOOSE p \in d : p[1] = k)[2] ELSE default
\* d[k] = v
Put(d, k, v) == {p \in d : p[1] # k} \cup {<<k, v>>}

\* Python truthiness of a value: None, "", 0, False and [] are falsy.
Truthy(v) ==
    CASE v.t = "str" -> v.s # <<>>
      [] v.t = "num" -> v.n # 0
      [] v.t = "bool" -> v.n = 1
      [] v.t = "list" -> v.l # <<>>
      [] OTHER -> FALSE

\* isinstance(v, (int, float)): bool is a subclass of int.
IsNumber(v) == v.t \in {"num", "bool"}

\* ---------------------------------------------------------------- file names

CharLower(c) ==
    CASE c = "P" -> "p"
      [] c = "D" -> "d"
      [] c = "F" -> "f"
      [] c = "B" -> "b"
      [] OTHER -> c

\* str.lower()
Lower(name) == [k \in 1..Len(name) |-> CharLower(name[k])]

\* str.endswith(suffix)
EndsWith(name, suffix) ==
    /\ Len(name) >= Len(suffix)
    /\ SubSeq(name, Len(name) - Len(suffix) + 1, Len(name)) = suffix

DotPdf == <<".", "p", "d", "f">>

FileNames ==
    { <<"a", ".", "p", "d", "f">>,
      <<"B", ".", "P", "D", "F">>,
      <<"c", ".", "t", "x", "t">> }

\* The requests: every list of 1..MaxFiles file names.
FileLists == UNION { [1..n -> FileNames] : n \in 1..MaxFiles }

\* The check applied to the first file only.
FirstInvalid_FirstOnly(fs) ==
    IF EndsWith(Lower(fs[1]), DotPdf) THEN 0 ELSE 1

\* 0 when every name ends in .pdf, else the index of the first that does not:
\* the loop `for file in files: if not file.filename.lower().endswith('.pdf')`.
FirstInvalid(fs) ==
    LET bad == {k \in 1..Len(fs) : ~EndsWith(Lower(fs[k]), DotPdf)}
    IN IF bad = {} THEN 0 ELSE CHOOSE k \in bad : \A j \in bad : k <= j


\* --------------------------------------------------------------- LLM service

\* A reply of the Gemini call: it raises, or returns a text. The text is a
\* payload, bare or inside a Markdown fence: "json" is ```json ... ```,
\* "plain" is ``` ... ```, "open" is a ```json fence that is never closed.
\* The payload is valid JSON (json) or not; valid JSON is an object (isObj,
\* with its keys in obj) or some other value (a list).
RaiseReply == [kind |-> "raise", fence |-> "none", json |-> FALSE, isObj |-> FALSE, obj |-> {}]
TextReply(fence, json, isObj, obj) ==
    [kind |-> "text", fence |-> fence, json |-> json, isObj |-> isObj, obj |-> obj]
Garbage == TextReply("none", FALSE, FALSE, {})
JsonList == TextReply("none", TRUE, FALSE, {})
JsonObj(fence, obj) == TextReply(fence, TRUE, TRUE, obj)

\* The outcome of a Python call: a value, or an exception with its str().
Return(v) == [raised |-> FALSE, err |-> <<>>, val |-> v]
Raise(e) == [raised |-> TRUE, err |-> e, val |-> [isObj |-> FALSE, obj |-> {}]]

\* A parsed JSON value: an object (a dict) or any other value.
PyDict(d) == [isObj |-> TRUE, obj |-> d]
PyOther == [isObj |-> FALSE, obj |-> {}]

\* generate_async: the executor runs _generate, which re-raises what the
\* model call raises and otherwise returns response.text.
GenerateAsync(reply) ==
    IF reply.kind = "raise" THEN Raise(S("LLMError")) ELSE Return(reply)

\* The cleaning every LLMService method applies before json.loads:
\* strip(), then [7:-3] after ```json or [3:-3] after ```. Cutting the last
\* three characters of a payload whose fence was never closed leaves text
\* that is not JSON.
CleanAndLoad(reply) ==
    LET r == GenerateAsync(reply)
    IN IF r.raised THEN r
       ELSE IF reply.fence = "open" \/ ~reply.json THEN Raise(S("JSONDecodeError"))
       ELSE Return(IF reply.isObj THEN PyDict(reply.obj) ELSE PyOther)

\* LLMService.classify_document: the parsed value, whatever it is, or the
\* fallback dict when the call or the parse raised.
ClassifyFallbackDict(e) ==
    { <<"type", JStr(S("unknown"))>>,
      <<"confidence", JNum(0)>>,
      <<"reasoning", JStr(<<"Classification failed: ">> \o e)>> }

ClassifyDocument(reply) ==
    LET r == CleanAndLoad(reply)
    IN IF r.raised THEN PyDict(ClassifyFallbackDict(r.err)) ELSE r.val

\* extract_bill_data / extract_discharge_data / extract_id_card_data: the
\* parsed value, or {} when the call or the parse raised.
ExtractData(reply) ==
    LET r == CleanAndLoad(reply)
    IN IF r.raised THEN PyDict({}) ELSE r.val

\* LLMService.validate_claim_data
ValidateFallbackDict(e) ==
    { <<"missing_documents", JList(<<>>)>>,
      <<"discrepancies", JList(<< <<"Validation failed: ">> \o e >>)>>,
      <<"data_quality_issues", JList(<<>>)>>,
      <<"validation_passed", JBool(FALSE)>> }

ValidateClaimData(reply) ==
    LET r == CleanAndLoad(reply)
    IN IF r.raised THEN PyDict(ValidateFallbackDict(r.err)) ELSE r.val

\* LLMService.make_claim_decision
DecisionFallbackDict(e) ==
    { <<"status", JStr(S("requires_review"))>>,
      <<"reason", JStr(<<"Decision making failed: ">> \o e)>>,
      <<"confidence", JNum(0)>>,
      <<"recommended_actions", JList(<< S("Manual review required") >>)>> }

MakeClaimDecision(reply) ==
    LET r == CleanAndLoad(reply)
    IN IF r.raised THEN PyDict(DecisionFallbackDict(r.err)) ELSE r.val

\* ---------------------------------------------------------------- classifier

\* The dict ClassifierAgent.process returns from its except branch.
ClassifierErrorResult(e, filename) ==
    [type |-> JStr(S("unknown")), confidence |-> JNum(0),
     reasoning |-> JStr(<<"Classification error: ">> \o e), filename |-> filename]

\* ClassifierAgent.process without its try/except: the TypeError and the
\* KeyError reach the caller.
ClassifierProcess_NoExcept(filename, reply) ==
    LET result == ClassifyDocument(reply)
    IN IF ~result.isObj THEN Raise(S("TypeError"))
       ELSE IF ~HasKey(result.obj, "type") THEN Raise(S("'type'"))
       ELSE IF ~HasKey(result.obj, "confidence") THEN Raise(S("'confidence'"))
       ELSE Return([type |-> Get(result.obj, "type"),
                    confidence |-> Get(result.obj, "confidence"),
                    reasoning |-> GetOr(result.obj, "reasoning", JStr(<<>>)),
                    filename |-> filename])

\* ClassifierAgent.process: result['type'] and result['confidence'] raise
\* TypeError on a value that is no dict and KeyError on a missing key; the
\* except branch turns either into the unknown classification.
ClassifierProcess(filename, reply) ==
    LET result == ClassifyDocument(reply)
    IN IF ~result.isObj THEN Return(ClassifierErrorResult(S("TypeError"), filename))
       ELSE IF ~HasKey(result.obj, "type")
            THEN Return(ClassifierErrorResult(S("'type'"), filename))
       ELSE IF ~HasKey(result.obj, "confidence")
            THEN Return(ClassifierErrorResult(S("'confidence'"), filename))
       ELSE Return([type |-> Get(result.obj, "type"),
                    confidence |-> Get(result.obj, "confidence"),
                    reasoning |-> GetOr(result.obj, "reasoning", JStr(<<>>)),
                    filename |-> filename])

\* -------------------------------------------------------------------- agents

\* errors.append(msg) under `if cond`.
AppendIf(cond, msg) == IF cond THEN << S(msg) >> ELSE <<>>

\* The code point of a character, for the characters dates are written in.
Code(c) ==
    CASE c = "-" -> 45
      [] c = "/" -> 47
      [] c = "0" -> 48
      [] c = "1" -> 49
      [] c = "2" -> 50
      [] c = "3" -> 51
      [] c = "4" -> 52
      [] c = "5" -> 53
      [] OTHER -> 63

\* Python's str < str: lexicographic by code point, a proper prefix is less.
RECURSIVE StrLess(_, _)
StrLess(a, b) ==
    IF b = <<>> THEN FALSE
    ELSE IF a = <<>> THEN TRUE
    ELSE IF Code(Head(a)) < Code(Head(b)) THEN TRUE
    ELSE IF Code(Head(a)) > Code(Head(b)) THEN FALSE
    ELSE StrLess(Tail(a), Tail(b))

\* The comparison taken as a >= b.
PyGreater_OrEqual(a, b) ==
    IF a.t = "str" /\ b.t = "str" THEN [raised |-> FALSE, val |-> ~StrLess(a.s, b.s)]
    ELSE IF IsNumber(a) /\ IsNumber(b) THEN [raised |-> FALSE, val |-> a.n >= b.n]
    ELSE [raised |-> TRUE, val |-> FALSE]

\* Python's a > b on two JSON values: strings compare lexically, numbers by
\* value, a string against a number raises TypeError.
PyGreater(a, b) ==
    IF a.t = "str" /\ b.t = "str" THEN [raised |-> FALSE, val |-> StrLess(b.s, a.s)]
    ELSE IF IsNumber(a) /\ IsNumber(b) THEN [raised |-> FALSE, val |-> a.n > b.n]
    ELSE [raised |-> TRUE, val |-> FALSE]

\* The except branch losing the error message.
FailedResult_NoMessage(type, e) ==
    [type |-> type, extracted_data |-> {}, validation_errors |-> <<>>,
     processing_status |-> "failed"]

\* The dict every agent returns from its except branch.
FailedResult(type, e) ==
    [type |-> type, extracted_data |-> {},
     validation_errors |-> << <<"Processing error: ">> \o e >>,
     processing_status |-> "failed"]

\* The try branch reporting completed whatever the validator found.
AgentResult_AlwaysCompleted(type, data, errors) ==
    [type |-> type, extracted_data |-> data, validation_errors |-> errors,
     processing_status |-> "completed"]

\* The dict every agent returns from its try branch.
AgentResult(type, data, errors) ==
    [type |-> type, extracted_data |-> data, validation_errors |-> errors,
     processing_status |-> IF errors = <<>> THEN "completed" ELSE "completed_with_warnings"]

\* BillAgent._validate_bill_data
ValidateBillData(data) ==
    AppendIf(~Truthy(Get(data, "hospital_name")), "Hospital name not found")
    \o AppendIf(~Truthy(Get(data, "total_amount")), "Total amount not found")
    \o AppendIf(~Truthy(Get(data, "date_of_service")), "Date of service not found")
    \o AppendIf(Truthy(Get(data, "total_amount")) /\ ~IsNumber(Get(data, "total_amount")),
                "Invalid total amount format")

\* BillAgent.process: data.get on a value that is no dict raises
\* AttributeError inside the try.
BillAgentProcess(reply) ==
    LET data == ExtractData(reply)
    IN IF ~data.isObj THEN FailedResult("bill", S("AttributeError"))
       ELSE AgentResult("bill", data.obj, ValidateBillData(data.obj))

\* DischargeAgent._validate_discharge_data; the date comparison may raise.
ValidateDischargeData(data) ==
    LET missing ==
            AppendIf(~Truthy(Get(data, "patient_name")), "Patient name not found")
            \o AppendIf(~Truthy(Get(data, "diagnosis")), "Diagnosis not found")
            \o AppendIf(~Truthy(Get(data, "admission_date")), "Admission date not found")
            \o AppendIf(~Truthy(Get(data, "discharge_date")), "Discharge date not found")
        both == Truthy(Get(data, "admission_date")) /\ Truthy(Get(data, "discharge_date"))
        cmp == PyGreater(Get(data, "admission_date"), Get(data, "discharge_date"))
    IN IF both /\ cmp.raised THEN Raise(S("TypeError"))
       ELSE [raised |-> FALSE, err |-> <<>>,
             val |-> missing \o AppendIf(both /\ cmp.val,
                                         "Admission date is after discharge date")]

\* DischargeAgent.process
DischargeAgentProcess(reply) ==
    LET data == ExtractData(reply)
    IN IF ~data.isObj THEN FailedResult("discharge_summary", S("AttributeError"))
       ELSE LET v == ValidateDischargeData(data.obj)
            IN IF v.raised THEN FailedResult("discharge_summary", v.err)
               ELSE AgentResult("discharge_summary", data.obj, v.val)

\* IDCardAgent._validate_id_card_data
ValidateIdCardData(data) ==
    AppendIf(~Truthy(Get(data, "patient_name")), "Patient name not found")
    \o AppendIf(~Truthy(Get(data, "insurance_id")), "Insurance ID not found")
    \o AppendIf(~Truthy(Get(data, "policy_number")), "Policy number not found")

\* IDCardAgent.process
IDCardAgentProcess(reply) ==
    LET data == ExtractData(reply)
    IN IF ~data.isObj THEN FailedResult("id_card", S("AttributeError"))
       ELSE AgentResult("id_card", data.obj, ValidateIdCardData(data.obj))

\* ClaimOrchestrator.agent_mapping: the classified types that have an agent.
AgentTypes == {"bill", "discharge_summary", "id_card"}

\* A lookup that finds an agent for every type.
IsRouted_AnyType(doc) == doc.type.t = "str"

\* `doc_type in self.agent_mapping` for doc_type = doc.get('type', 'unknown').
IsRouted(doc) == doc.type.t = "str" /\ \E a \in AgentTypes : doc.type.s = S(a)

\* agent = self.agent_mapping[doc_type]; agent.process(doc)
AgentProcess(doc, reply) ==
    IF doc.type.s = S("bill") THEN BillAgentProcess(reply)
    ELSE IF doc.type.s = S("discharge_summary") THEN DischargeAgentProcess(reply)
    ELSE IDCardAgentProcess(reply)

\* The two keys _process_documents adds to an agent's result.
WithDocKeys(result, doc) ==
    [type |-> result.type, filename |-> doc.filename,
     extracted_data |-> result.extracted_data,
     validation_errors |-> result.validation_errors,
     processing_status |-> result.processing_status,
     classification_confidence |-> doc.confidence]

\* The result _process_documents synthesizes for a type without an agent.
UnknownResult(doc) ==
    [type |-> "unknown", filename |-> doc.filename, extracted_data |-> {},
     validation_errors |-> << S("Unknown document type") >>,
     processing_status |-> "skipped",
     classification_confidence |-> doc.confidence]

\* ------------------------------------------------------------------- schemas

\* pydantic's check of `confidence: float = Field(ge=0, le=1)`: a number of
\* [0, 1]. (The strings among the replies below are not numeric.)
ValidConfidence(v) == v.t = "num" /\ v.n >= 0 /\ v.n <= 10

\* pydantic's check of a List[str] field.
ValidStrList(v) == v.t = "list"

\* pydantic's check of `validation_passed: bool`: a bool, the numbers 0 and
\* 1, or one of the strings it reads as a bool.
TrueStrings == {S("true"), S("1"), S("yes"), S("on"), S("t"), S("y")}
FalseStrings == {S("false"), S("0"), S("no"), S("off"), S("f"), S("n")}
ValidBool(v) ==
    \/ v.t = "bool"
    \/ v.t = "num" /\ v.n \in {0, 1}
    \/ v.t = "str" /\ v.s \in TrueStrings \cup FalseStrings

\* The bool pydantic makes of a value that passed the check.
BoolValue(v) == IF v.t = "str" THEN v.s \in TrueStrings ELSE v.n = 1

\* pydantic's check of `status: ClaimStatus`.
ClaimStatuses == {"approved", "rejected", "requires_review"}
ValidStatus(v) == v.t = "str" /\ \E c \in ClaimStatuses : v.s = S(c)

\* pydantic's check of `reason: str`.
ValidStr(v) == v.t = "str"

\* ----------------------------------------------------------------- orchestrator

\* ClaimOrchestrator._validate_claim, from the reply of its one LLM call:
\* .get on a value that is no dict raises AttributeError, and ValidationResult
\* raises on a field of the wrong type.
ValidateClaim(reply) ==
    LET res == ValidateClaimData(reply)
        md == GetOr(res.obj, "missing_documents", JList(<<>>))
        di == GetOr(res.obj, "discrepancies", JList(<<>>))
        dq == GetOr(res.obj, "data_quality_issues", JList(<<>>))
        vp == GetOr(res.obj, "validation_passed", JBool(FALSE))
    IN IF ~res.isObj THEN Raise(S("AttributeError"))
       ELSE IF ~(ValidStrList(md) /\ ValidStrList(di) /\ ValidStrList(dq) /\ ValidBool(vp))
            THEN Raise(S("ValidationError"))
       ELSE [raised |-> FALSE, err |-> <<>>,
             val |-> [missing_documents |-> md.l, discrepancies |-> di.l,
                      data_quality_issues |-> dq.l, validation_passed |-> BoolValue(vp)]]

\* _make_claim_decision with approved as the status of an answer without one.
MakeDecision_ApproveByDefault(reply) ==
    LET res == MakeClaimDecision(reply)
        st == GetOr(res.obj, "status", JStr(S("approved")))
        re == GetOr(res.obj, "reason", JStr(S("Decision could not be determined")))
        co == GetOr(res.obj, "confidence", JNum(0))
        ra == GetOr(res.obj, "recommended_actions", JList(<<>>))
    IN IF ~res.isObj THEN Raise(S("AttributeError"))
       ELSE IF ~(ValidStatus(st) /\ ValidStr(re) /\ ValidConfidence(co) /\ ValidStrList(ra))
            THEN Raise(S("ValidationError"))
       ELSE [raised |-> FALSE, err |-> <<>>,
             val |-> [status |-> st.s[1], reason |-> re.s, confidence |-> co.n,
                      recommended_actions |-> ra.l]]

\* ClaimOrchestrator._make_claim_decision, from the reply of its one LLM call.
MakeDecision(reply) ==
    LET res == MakeClaimDecision(reply)
        st == GetOr(res.obj, "status", JStr(S("requires_review")))
        re == GetOr(res.obj, "reason", JStr(S("Decision could not be determined")))
        co == GetOr(res.obj, "confidence", JNum(0))
        ra == GetOr(res.obj, "recommended_actions", JList(<<>>))
    IN IF ~res.isObj THEN Raise(S("AttributeError"))
       ELSE IF ~(ValidStatus(st) /\ ValidStr(re) /\ ValidConfidence(co) /\ ValidStrList(ra))
            THEN Raise(S("ValidationError"))
       ELSE [raised |-> FALSE, err |-> <<>>,
             val |-> [status |-> st.s[1], reason |-> re.s, confidence |-> co.n,
                      recommended_actions |-> ra.l]]

\* ProcessedDocument(type=..., filename=..., confidence=..., extracted_data=...,
\* processing_errors=...): the record of one document in the response.
ProcessedDocument(doc) ==
    [type |-> doc.type, filename |-> doc.filename,
     confidence |-> doc.classification_confidence.n,
     extracted_data |-> doc.extracted_data,
     processing_errors |-> doc.validation_errors]

\* structured_data when a type's first document is kept.
RECURSIVE StructuredData_FirstWins(_, _)
StructuredData_FirstWins(docs, k) ==
    IF k = 0 THEN {}
    ELSE IF docs[k].type # "unknown" /\ ~HasKey(StructuredData_FirstWins(docs, k - 1), docs[k].type)
         THEN Put(StructuredData_FirstWins(docs, k - 1), docs[k].type, docs[k].extracted_data)
         ELSE StructuredData_FirstWins(docs, k - 1)

\* structured_data after the loop of _structure_response over docs[1..k]:
\* structured_data[doc['type']] = extracted_data for every type but unknown.
RECURSIVE StructuredData(_, _)
StructuredData(docs, k) ==
    IF k = 0 THEN {}
    ELSE IF docs[k].type # "unknown"
         THEN Put(StructuredData(docs, k - 1), docs[k].type, docs[k].extracted_data)
         ELSE StructuredData(docs, k - 1)

\* ClaimOrchestrator._structure_response: ProcessedDocument raises on a
\* confidence that is no number of [0, 1].
StructureResponse(docs, validation, decision) ==
    IF \E k \in 1..Len(docs) : ~ValidConfidence(docs[k].classification_confidence)
    THEN Raise(S("ValidationError"))
    ELSE [raised |-> FALSE, err |-> <<>>,
          val |-> [documents |-> [k \in 1..Len(docs) |-> ProcessedDocument(docs[k])],
                   structured_data |-> StructuredData(docs, Len(docs)),
                   validation |-> validation,
                   claim_decision |-> decision]]

\* The response process_claim returns from its except branch.
ErrorResponse(e) ==
    [documents |-> <<>>,
     structured_data |-> {},
     validation |-> [missing_documents |-> <<>>, discrepancies |-> <<>>,
                     data_quality_issues |-> << <<"Processing failed: ">> \o e >>,
                     validation_passed |-> FALSE],
     claim_decision |-> [status |-> "requires_review",
                         reason |-> <<"Processing error: ">> \o e,
                         confidence |-> 0,
                         recommended_actions |-> <<>>]]

\* ------------------------------------------------- replies of the collaborators

\* PDFService.extract_text_from_pdf returns the stripped text, or None when
\* PyPDF2 raised.
NoneValue == JNull
ExtractReplies == { JStr(S("Hospital bill ...")), NoneValue }

ReasonGiven == <<"reasoning", JStr(S("looks like it"))>>

\* What the model may answer to the classification prompt.
ClassifyReplies ==
    { RaiseReply,
      Garbage,
      JsonList,
      JsonObj("none", {<<"confidence", JNum(9)>>, ReasonGiven}),
      JsonObj("none", {<<"type", JStr(S("bill"))>>, ReasonGiven}),
      JsonObj("none", {<<"type", JStr(S("bill"))>>, <<"confidence", JNum(9)>>, ReasonGiven}),
      JsonObj("json", {<<"type", JStr(S("discharge_summary"))>>, <<"confidence", JNum(8)>>}),
      JsonObj("plain", {<<"type", JStr(S("id_card"))>>, <<"confidence", JNum(10)>>, ReasonGiven}),
      JsonObj("none", {<<"type", JStr(S("unknown"))>>, <<"confidence", JNum(3)>>, ReasonGiven}),
      JsonObj("none", {<<"type", JStr(S("invoice"))>>, <<"confidence", JNum(15)>>, ReasonGiven}) }

Date(y, m, d) == JStr(y \o <<"-">> \o m \o <<"-">> \o d)
Y2024 == <<"2", "0", "2", "4">>

\* What the model may answer to the bill extraction prompt.
BillReplies ==
    { RaiseReply,
      JsonObj("open", {<<"hospital_name", JStr(S("Apollo"))>>, <<"total_amount", JNum(12500)>>}),
      JsonList,
      JsonObj("json", {<<"hospital_name", JStr(S("Apollo"))>>, <<"total_amount", JNum(12500)>>,
                       <<"date_of_service", Date(Y2024, <<"0", "4">>, <<"1", "0">>)>>}),
      JsonObj("none", {<<"hospital_name", JStr(S("Apollo"))>>, <<"total_amount", JNull>>,
                       <<"date_of_service", Date(Y2024, <<"0", "4">>, <<"1", "0">>)>>}) }

\* What the model may answer to the discharge-summary extraction prompt.
DischargeReplies ==
    { RaiseReply,
      JsonObj("none", {<<"patient_name", JStr(S("Asha"))>>, <<"diagnosis", JStr(S("Fracture"))>>,
                       <<"admission_date", Date(Y2024, <<"0", "4">>, <<"0", "1">>)>>,
                       <<"discharge_date", Date(Y2024, <<"0", "4">>, <<"1", "0">>)>>}),
      JsonObj("none", {<<"patient_name", JStr(S("Asha"))>>, <<"diagnosis", JNull>>,
                       <<"admission_date", Date(Y2024, <<"0", "4">>, <<"0", "1">>)>>,
                       <<"discharge_date", Date(Y2024, <<"0", "4">>, <<"1", "0">>)>>}),
      JsonObj("none", {<<"patient_name", JStr(S("Asha"))>>, <<"diagnosis", JStr(S("Fracture"))>>,
                       <<"admission_date", Date(Y2024, <<"0", "5">>, <<"0", "1">>)>>,
                       <<"discharge_date", Date(Y2024, <<"0", "4">>, <<"0", "1">>)>>}),
      JsonObj("none", {<<"patient_name", JStr(S("Asha"))>>, <<"diagnosis", JStr(S("Fracture"))>>,
                       <<"admission_date", JNum(20240401)>>,
                       <<"discharge_date", Date(Y2024, <<"0", "4">>, <<"1", "0">>)>>}) }

\* What the model may answer to the ID-card extraction prompt.
IdCardReplies ==
    { RaiseReply,
      JsonList,
      JsonObj("none", {<<"patient_name", JStr(S("Asha"))>>, <<"insurance_id", JStr(S("INS-1"))>>,
                       <<"policy_number", JStr(S("P-7"))>>}) }

\* The replies to the extraction prompt of the agent a document is routed to.
HandlerReplies(doc) ==
    IF doc.type.s = S("bill") THEN BillReplies
    ELSE IF doc.type.s = S("discharge_summary") THEN DischargeReplies
    ELSE IdCardReplies

\* What the model may answer to the claim validation prompt.
ValidateReplies ==
    { RaiseReply,
      Garbage,
      JsonList,
      JsonObj("json", {<<"missing_documents", JList(<<>>)>>, <<"discrepancies", JList(<<>>)>>,
                       <<"data_quality_issues", JList(<<>>)>>, <<"validation_passed", JBool(TRUE)>>}),
      JsonObj("none", {<<"missing_documents", JList(<< S("discharge_summary") >>)>>,
                       <<"discrepancies", JList(<< S("Patient names differ") >>)>>,
                       <<"data_quality_issues", JList(<< S("Missing diagnosis") >>)>>,
                       <<"validation_passed", JBool(FALSE)>>}),
      JsonObj("none", {<<"validation_passed", JStr(S("yes"))>>}),
      JsonObj("none", {}) }

\* What the model may answer to the decision prompt.
DecideReplies ==
    { RaiseReply,
      Garbage,
      JsonList,
      JsonObj("json", {<<"status", JStr(S("approved"))>>, <<"reason", JStr(S("All present"))>>,
                       <<"confidence", JNum(9)>>,
                       <<"recommended_actions", JList(<< S("Pay") >>)>>}),
      JsonObj("none", {}),
      JsonObj("none", {<<"status", JStr(S("requires_review"))>>, <<"reason", JStr(S("Unsure"))>>,
                       <<"confidence", JNum(15)>>}),
      JsonObj("none", {<<"status", JStr(S("maybe"))>>, <<"reason", JStr(S("Unsure"))>>,
                       <<"confidence", JNum(5)>>}),
      JsonObj("none", {<<"reason", JStr(S("Unsure"))>>, <<"confidence", JNum(5)>>}) }

\* ----------------------------------------------------------------------- state

VARIABLES
    apiKey,        \* GOOGLE_API_KEY is set in the environment
    files,         \* the uploaded files' names, in upload order
    pc,            \* where the request is: idle, endpoint, extract, classify,
                   \* process, validate, decide, closed (agent, agent_done
                   \* in the specification of the agents alone)
    http,          \* the HTTP answer: [status, detail], status 0 while open
    exTask,        \* the extract_single_file task of each file
    exQueue,       \* extraction calls waiting for a worker of PDFService.executor
    clTask,        \* the classify_single_document task of each document
    llmQueue,      \* LLM calls waiting for a worker of LLMService.executor
    docs,          \* extracted_texts: one dict per file, in file order
    hReply,        \* the replies the agents' extraction calls got, per document
    processed,     \* processed_docs of _process_documents
    vReply,        \* the reply the validation call got
    validation,    \* validation_result, a sequence of at most one ValidationResult
    dReply,        \* the reply the decision call got
    response,      \* what process_claim returned, a sequence of at most one
    extractCalls,  \* calls of PDFService.extract_text_from_pdf so far
    llmCalls,      \* calls of LLMService.generate_async so far
    dPrompt,       \* what make_claim_decision was called with, at most one
    reqs           \* the requests in progress, in the specification of
                   \* concurrent requests

vars == <<apiKey, files, pc, http, exTask, exQueue, clTask, llmQueue, docs, hReply,
          processed, vReply, validation, dReply, response, extractCalls, llmCalls,
          dPrompt, reqs>>

NoReply == [kind |-> "none", fence |-> "none", json |-> FALSE, isObj |-> FALSE, obj |-> {}]
NoClassification ==
    [type |-> JAbsent, confidence |-> JAbsent, reasoning |-> JAbsent, filename |-> <<>>]

N == Len(files)

Init ==
    /\ apiKey \in BOOLEAN
    /\ files \in FileLists
    /\ pc = "idle"
    /\ http = [status |-> 0, detail |-> <<>>]
    /\ exTask = <<>>
    /\ exQueue = <<>>
    /\ clTask = <<>>
    /\ llmQueue = <<>>
    /\ docs = <<>>
    /\ hReply = <<>>
    /\ processed = <<>>
    /\ vReply = NoReply
    /\ validation = <<>>
    /\ dReply = NoReply
    /\ response = <<>>
    /\ extractCalls = 0
    /\ llmCalls = 0
    /\ dPrompt = <<>>
    /\ reqs = <<>>

\* ------------------------------------------------------------------- endpoint

\* FastAPI resolves Depends(get_orchestrator) -> Depends(get_llm_service)
\* before it calls the endpoint: LLMService() raises ValueError without the
\* key, which no handler catches, so the request is answered 500.
ResolveDependencies ==
    /\ pc = "idle"
    /\ IF apiKey
       THEN /\ pc' = "endpoint"
            /\ UNCHANGED http
       ELSE /\ pc' = "closed"
            /\ http' = [status |-> 500, detail |-> S("Internal Server Error")]
    /\ UNCHANGED <<apiKey, reqs, dPrompt, files, exTask, exQueue, clTask, llmQueue, docs, hReply,
                   processed, vReply, validation, dReply, response, extractCalls, llmCalls>>

\* raise HTTPException(status_code=400, detail=f"Invalid file type: ...")
InvalidFileType(name) ==
    [status |-> 400,
     detail |-> <<"Invalid file type: ">> \o name \o <<". Only PDF files are supported.">>]

\* str() of an HTTPException: "<status_code>: <detail>".
StrOfHttpError(e) ==
    (IF e.status = 400 THEN <<"400: ">> ELSE <<"500: ">>) \o e.detail

\* The endpoint's `except Exception as e: raise HTTPException(status_code=500,
\* ...)`. HTTPException is an Exception, so the 400 raised inside the same try
\* is caught here as well.
EndpointError(e) ==
    [status |-> 500, detail |-> <<"Internal server error: ">> \o StrOfHttpError(e)]

\* The answer of a request that process_claim returned a response to.
Ok200 == [status |-> 200, detail |-> <<>>]

\* The tasks asyncio.gather starts in _extract_texts_from_files: each awaits
\* file.read().
NewExtractTasks(n) == [i \in 1..n |-> [st |-> "reading", reply |-> JAbsent, text |-> <<>>]]

\* The endpoint body up to its first suspension: the file-type loop, then
\* orchestrator.process_claim up to the gather of the extraction tasks.
Endpoint ==
    /\ pc = "endpoint"
    /\ LET k == FirstInvalid(files)
       IN IF k # 0
          THEN /\ http' = EndpointError(InvalidFileType(files[k]))
               /\ pc' = "closed"
               /\ UNCHANGED exTask
          ELSE /\ pc' = "extract"
               /\ exTask' = NewExtractTasks(N)
               /\ UNCHANGED http
    /\ UNCHANGED <<apiKey, reqs, dPrompt, files, exQueue, clTask, llmQueue, docs, hReply, processed,
                   vReply, validation, dReply, response, extractCalls, llmCalls>>

\* process_claim without its try/except: the exception reaches the endpoint,
\* whose own except answers 500.
Fatal_Reraise(e) ==
    /\ response' = <<>>
    /\ http' = [status |-> 500, detail |-> <<"Internal server error: ">> \o e]
    /\ pc' = "closed"

\* process_claim's `except Exception`: the error response is returned, and
\* the endpoint returns it.
Fatal(e) ==
    /\ response' = << ErrorResponse(e) >>
    /\ http' = Ok200
    /\ pc' = "closed"

\* ------------------------------------------------------------ extraction stage

Running(tasks) == {i \in DOMAIN tasks : tasks[i].st = "running"}

\* An executor that starts a thread for every call.
SubmitState_NoLimit(tasks, workers) == "running"

\* loop.run_in_executor: a ThreadPoolExecutor runs the call at once while it
\* has fewer than max_workers busy, and queues it (FIFO) otherwise.
SubmitState(tasks, workers) ==
    IF Cardinality(Running(tasks)) < workers THEN "running" ELSE "queued"

\* file.read() of file i raises: extract_single_file does not catch it.
ReadRaises(i) ==
    /\ i \in DOMAIN exTask
    /\ exTask[i].st = "reading"
    /\ exTask' = [exTask EXCEPT ![i].st = "raised"]
    /\ UNCHANGED <<apiKey, reqs, dPrompt, files, pc, http, exQueue, clTask, llmQueue, docs, hReply,
                   processed, vReply, validation, dReply, response, extractCalls, llmCalls>>

\* file.read() of file i returns: the task calls extract_text_from_pdf, which
\* hands _extract_text to the executor.
ReadReturns(i) ==
    /\ i \in DOMAIN exTask
    /\ exTask[i].st = "reading"
    /\ LET st == SubmitState(exTask, PdfWorkers)
       IN /\ exTask' = [exTask EXCEPT ![i].st = st]
          /\ exQueue' = IF st = "queued" THEN Append(exQueue, i) ELSE exQueue
    /\ extractCalls' = extractCalls + 1
    /\ UNCHANGED <<apiKey, reqs, dPrompt, files, pc, http, clTask, llmQueue, docs, hReply,
                   processed, vReply, validation, dReply, response, llmCalls>>

\* 'text': text or ""
TextOrEmpty(reply) == IF Truthy(reply) THEN reply.s ELSE <<>>

\* A worker finishes call i and takes the next queued call, if any.
Finish(tasks, queue, i, done) ==
    [j \in DOMAIN tasks |->
        IF j = i THEN done
        ELSE IF queue # <<>> /\ j = Head(queue) THEN [tasks[j] EXCEPT !.st = "running"]
        ELSE tasks[j]]

\* _extract_text of file i returns (the text, or None after an exception) and
\* extract_single_file returns its dict.
ExtractReturns(i) ==
    /\ i \in DOMAIN exTask
    /\ exTask[i].st = "running"
    /\ \E reply \in ExtractReplies :
         exTask' = Finish(exTask, exQueue, i,
                          [st |-> "done", reply |-> reply, text |-> TextOrEmpty(reply)])
    /\ exQueue' = IF exQueue = <<>> THEN exQueue ELSE Tail(exQueue)
    /\ UNCHANGED <<apiKey, reqs, dPrompt, files, pc, http, clTask, llmQueue, docs, hReply,
                   processed, vReply, validation, dReply, response, extractCalls, llmCalls>>

\* A join that returns at the first completion.
AllDone_FirstCompletion(tasks) == \E i \in DOMAIN tasks : tasks[i].st = "done"

\* asyncio.gather returns when every task has returned.
AllDone(tasks) == \A i \in DOMAIN tasks : tasks[i].st = "done"
Raised(tasks) == {i \in DOMAIN tasks : tasks[i].st = "raised"}

\* The tasks' dicts collected last first.
ExtractedTexts_Reversed(fs, tasks) ==
    [i \in 1..Len(fs) |->
        [filename |-> fs[Len(fs) + 1 - i], text |-> tasks[Len(fs) + 1 - i].text,
         type |-> JAbsent, confidence |-> JAbsent, reasoning |-> JAbsent]]

\* The list asyncio.gather returns: the tasks' dicts in the order of the files.
ExtractedTexts(fs, tasks) ==
    [i \in 1..Len(fs) |->
        [filename |-> fs[i], text |-> tasks[i].text,
         type |-> JAbsent, confidence |-> JAbsent, reasoning |-> JAbsent]]

\* The classification tasks gather starts: each reaches run_in_executor, the
\* first LlmWorkers calls run and the others queue.
NewClassifyTasks(n) ==
    [i \in 1..n |-> [st |-> IF i <= LlmWorkers THEN "running" ELSE "queued",
                     reply |-> NoReply, result |-> NoClassification, err |-> <<>>]]

\* gather of the extraction tasks returns: _classify_documents starts.
ExtractJoin ==
    /\ pc = "extract"
    /\ AllDone(exTask)
    /\ docs' = ExtractedTexts(files, exTask)
    /\ clTask' = NewClassifyTasks(N)
    /\ llmQueue' = [k \in 1..(IF N > LlmWorkers THEN N - LlmWorkers ELSE 0) |-> LlmWorkers + k]
    /\ llmCalls' = llmCalls + N
    /\ pc' = "classify"
    /\ UNCHANGED <<apiKey, reqs, dPrompt, files, http, exTask, exQueue, hReply, processed, vReply,
                   validation, dReply, response, extractCalls>>

\* gather re-raises the first exception of a task at once; the other tasks
\* keep running. process_claim catches it and returns the error response.
ExtractAbort ==
    /\ pc = "extract"
    /\ Raised(exTask) # {}
    /\ Fatal(S("read failed"))
    /\ UNCHANGED <<apiKey, reqs, dPrompt, files, exTask, exQueue, clTask, llmQueue, docs, hReply,
                   processed, vReply, validation, dReply, extractCalls, llmCalls>>

\* -------------------------------------------------------- classification stage

\* The LLM call of document i resolves and ClassifierAgent.process returns.
ClassifyReturns(i) ==
    /\ i \in DOMAIN clTask
    /\ clTask[i].st = "running"
    /\ \E reply \in ClassifyReplies :
         LET r == ClassifierProcess(docs[i].filename, reply)
         IN clTask' = Finish(clTask, llmQueue, i,
                             IF r.raised
                             THEN [st |-> "raised", reply |-> reply,
                                   result |-> NoClassification, err |-> r.err]
                             ELSE [st |-> "done", reply |-> reply,
                                   result |-> r.val, err |-> <<>>])
    /\ llmQueue' = IF llmQueue = <<>> THEN llmQueue ELSE Tail(llmQueue)
    /\ UNCHANGED <<apiKey, reqs, dPrompt, files, pc, http, exTask, exQueue, docs, hReply, processed,
                   vReply, validation, dReply, response, extractCalls, llmCalls>>

\* The classifications merged last first, as if by completion order.
MergeClassifications_Reversed(ds, tasks) ==
    [i \in 1..Len(ds) |->
        [filename |-> ds[i].filename, text |-> ds[i].text,
         type |-> tasks[Len(ds) + 1 - i].result.type,
         confidence |-> tasks[Len(ds) + 1 - i].result.confidence,
         reasoning |-> tasks[Len(ds) + 1 - i].result.reasoning]]

\* extracted_texts[i].update(classification), for every i.
MergeClassifications(ds, tasks) ==
    [i \in 1..Len(ds) |->
        [filename |-> tasks[i].result.filename, text |-> ds[i].text,
         type |-> tasks[i].result.type, confidence |-> tasks[i].result.confidence,
         reasoning |-> tasks[i].result.reasoning]]

\* The loop of _process_documents from where it stands to its next await:
\* documents without an agent get their result at once, and the loop stops
\* at the first document that has one (or at the end of the list).
RECURSIVE SkipUnrouted(_, _)
SkipUnrouted(ds, done) ==
    IF Len(done) = Len(ds) \/ IsRouted(ds[Len(done) + 1]) THEN done
    ELSE SkipUnrouted(ds, Append(done, UnknownResult(ds[Len(done) + 1])))

\* hReply holds no reply for the documents that had no call.
PadReplies(replies, n) ==
    [k \in 1..n |-> IF k <= Len(replies) THEN replies[k] ELSE NoReply]

\* _process_documents runs on to its next LLM call; past the last document
\* _validate_claim starts and makes its call.
ContinueProcessing(ds, done, replies) ==
    LET next == SkipUnrouted(ds, done)
    IN /\ processed' = next
       /\ hReply' = PadReplies(replies, Len(next))
       /\ pc' = IF Len(next) = Len(ds) THEN "validate" ELSE "process"
       /\ llmCalls' = llmCalls + 1

\* gather of the classification tasks returns, the classifications are
\* merged and _process_documents starts. (gather would re-raise what a task
\* raised.)
ClassifyJoin ==
    /\ pc = "classify"
    /\ Raised(clTask) = {} => AllDone(clTask)
    /\ IF Raised(clTask) # {}
       THEN /\ Fatal(clTask[CHOOSE i \in Raised(clTask) : TRUE].err)
            /\ UNCHANGED <<docs, processed, hReply, llmCalls>>
       ELSE /\ LET merged == MergeClassifications(docs, clTask)
               IN /\ docs' = merged
                  /\ ContinueProcessing(merged, <<>>, <<>>)
            /\ UNCHANGED <<http, response>>
    /\ UNCHANGED <<apiKey, reqs, dPrompt, files, exTask, exQueue, clTask, llmQueue, vReply,
                   validation, dReply, extractCalls>>

\* ---------------------------------------------------------------- handler stage

\* The extraction call of the document the loop waits for resolves: the
\* agent returns, the result is appended and the loop goes on.
HandlerReturns ==
    /\ pc = "process"
    /\ LET doc == docs[Len(processed) + 1]
       IN \E reply \in HandlerReplies(doc) :
            ContinueProcessing(docs,
                               Append(processed, WithDocKeys(AgentProcess(doc, reply), doc)),
                               Append(hReply, reply))
    /\ UNCHANGED <<apiKey, reqs, dPrompt, files, http, exTask, exQueue, clTask, llmQueue,
                   docs, vReply,
                   validation, dReply, response, extractCalls>>

\* ------------------------------------------------- validation and decision stages

\* The locals of the first three stages are not read again once the
\* validation call has resolved.
DropStageLocals ==
    /\ exTask' = <<>>
    /\ clTask' = <<>>
    /\ docs' = <<>>
    /\ hReply' = <<>>

\* The decision input without the documents' own status.
DecisionData_NoStatus(ds, val) ==
    [documents |-> [k \in 1..Len(ds) |->
                      [type |-> ds[k].type, filename |-> ds[k].filename,
                       data |-> ds[k].extracted_data, status |-> "unknown"]],
     validation |-> val]

\* decision_data and validation_data, the two arguments _make_claim_decision
\* builds for LLMService.make_claim_decision.
DecisionData(ds, val) ==
    [documents |-> [k \in 1..Len(ds) |->
                      [type |-> ds[k].type, filename |-> ds[k].filename,
                       data |-> ds[k].extracted_data,
                       status |-> ds[k].processing_status]],
     validation |-> val]

\* The validation call resolves and _validate_claim returns or raises; after
\* it _make_claim_decision makes its call.
ValidateReturns ==
    /\ pc = "validate"
    /\ \E reply \in ValidateReplies :
         LET r == ValidateClaim(reply)
         IN /\ vReply' = reply
            /\ IF r.raised
               THEN /\ Fatal(r.err)
                    /\ UNCHANGED <<validation, llmCalls, dPrompt>>
               ELSE /\ validation' = << r.val >>
                    /\ dPrompt' = << DecisionData(processed, r.val) >>
                    /\ pc' = "decide"
                    /\ llmCalls' = llmCalls + 1
                    /\ UNCHANGED <<http, response>>
    /\ DropStageLocals
    /\ UNCHANGED <<apiKey, reqs, files, exQueue, llmQueue, processed, dReply, extractCalls>>

\* The decision call resolves: _make_claim_decision returns or raises, then
\* _structure_response builds the response; process_claim returns it (or the
\* error response) and the endpoint answers.
DecideReturns ==
    /\ pc = "decide"
    /\ \E reply \in DecideReplies :
         LET dec == MakeDecision(reply)
             sr == StructureResponse(processed, validation[1], dec.val)
         IN /\ dReply' = reply
            /\ IF dec.raised THEN Fatal(dec.err)
               ELSE IF sr.raised THEN Fatal(sr.err)
               ELSE /\ response' = << sr.val >>
                    /\ http' = Ok200
                    /\ pc' = "closed"
    /\ UNCHANGED <<apiKey, reqs, dPrompt, files, exTask, exQueue, clTask, llmQueue, docs, hReply,
                   processed, vReply, validation, extractCalls, llmCalls>>

Next ==
    \/ ResolveDependencies
    \/ Endpoint
    \/ \E i \in 1..MaxFiles + 1 : ReadRaises(i)
    \/ \E i \in 1..MaxFiles + 1 : ReadReturns(i)
    \/ \E i \in 1..MaxFiles + 1 : ExtractReturns(i)
    \/ ExtractJoin
    \/ ExtractAbort
    \/ \E i \in 1..MaxFiles + 1 : ClassifyReturns(i)
    \/ ClassifyJoin
    \/ HandlerReturns
    \/ ValidateReturns
    \/ DecideReturns

Spec == Init /\ [][Next]_vars

\* ------------------------------------------------------------ the agents alone

\* A specification of one call of an agent's process: the classified document
\* and the answer of its extraction call are drawn from the sets below, and
\* the one action applies the agent.

\* A JSON object has the key k with one of the values, or lacks it.
OptField(k, vals) == {{}} \cup {{<<k, v>>} : v \in vals}

\* Dates as the model writes them, and a year alone.
Dates ==
    { Date(Y2024, <<"0", "4">>, <<"0", "1">>),
      Date(Y2024, <<"0", "4">>, <<"1", "0">>),
      Date(Y2024, <<"0", "5">>, <<"0", "1">>),
      JStr(Y2024) }

\* The records the bill extraction prompt may be answered with.
BillRecords ==
    { a \cup b \cup c :
        a \in OptField("hospital_name", {JNull, JStr(S("Apollo"))}),
        b \in OptField("total_amount", {JNull, JNum(0), JNum(12500), JStr(S("12,500"))}),
        c \in OptField("date_of_service", {Date(Y2024, <<"0", "4">>, <<"1", "0">>)}) }

\* The records the discharge-summary extraction prompt may be answered with.
DischargeRecords ==
    { a \cup b \cup c \cup d :
        a \in OptField("patient_name", {JStr(S("Asha"))}),
        b \in OptField("diagnosis", {JStr(S("Fracture"))}),
        c \in OptField("admission_date", Dates \cup {JNum(20240401)}),
        d \in OptField("discharge_date", Dates) }

\* The records the ID-card extraction prompt may be answered with.
IdCardRecords ==
    { a \cup b \cup c :
        a \in OptField("patient_name", {JNull, JStr(S("Asha"))}),
        b \in OptField("insurance_id", {JNull, JStr(S("INS-1"))}),
        c \in OptField("policy_number", {JNull, JStr(S("P-7"))}) }

\* The answers of the extraction call of the agent of a type.
AgentReplies(type) ==
    {RaiseReply, Garbage, JsonList}
    \cup {JsonObj("none", r) :
            r \in IF type = "bill" THEN BillRecords
                  ELSE IF type = "discharge_summary" THEN DischargeRecords
                  ELSE IdCardRecords}

\* A document classified as one of the agents' types, about to be processed,
\* and the answer its extraction call will get.
InitAgents ==
    /\ apiKey = TRUE
    /\ files = << <<"a", ".", "p", "d", "f">> >>
    /\ pc = "agent"
    /\ http = [status |-> 0, detail |-> <<>>]
    /\ exTask = <<>>
    /\ exQueue = <<>>
    /\ clTask = <<>>
    /\ llmQueue = <<>>
    /\ \E type \in AgentTypes :
         /\ docs = << [filename |-> files[1], text |-> S("Hospital bill ..."),
                       type |-> JStr(S(type)), confidence |-> JNum(9),
                       reasoning |-> JStr(S("looks like it"))] >>
         /\ hReply \in {<<r>> : r \in AgentReplies(type)}
    /\ processed = <<>>
    /\ vReply = NoReply
    /\ validation = <<>>
    /\ dReply = NoReply
    /\ response = <<>>
    /\ extractCalls = 0
    /\ llmCalls = 0
    /\ dPrompt = <<>>
    /\ reqs = <<>>

\* result = await agent.process(doc), with the two keys _process_documents
\* adds.
AgentReturns ==
    /\ pc = "agent"
    /\ processed' = << WithDocKeys(AgentProcess(docs[1], hReply[1]), docs[1]) >>
    /\ pc' = "agent_done"
    /\ llmCalls' = llmCalls + 1
    /\ UNCHANGED <<apiKey, reqs, dPrompt, files, http, exTask, exQueue, clTask, llmQueue,
                   docs, hReply,
                   vReply, validation, dReply, response, extractCalls>>

NextAgents == AgentReturns

SpecAgents == InitAgents /\ [][NextAgents]_vars

\* ------------------------------------------------------------- the pools alone

\* A specification of one request of up to MaxPoolFiles files, more than
\* either pool has workers, in which every collaborator answers in one way
\* (the classifier in two), so that the state space is the scheduling of the
\* calls.
MaxPoolFiles == 6

PoolFiles == { [i \in 1..n |-> <<"a", ".", "p", "d", "f">>] : n \in 1..MaxPoolFiles }

PoolText == JStr(S("Hospital bill ..."))
PoolClassifyReplies ==
    { JsonObj("none", {<<"type", JStr(S("bill"))>>, <<"confidence", JNum(9)>>, ReasonGiven}),
      JsonObj("none", {<<"type", JStr(S("unknown"))>>, <<"confidence", JNum(3)>>, ReasonGiven}) }
PoolBillReply == JsonList
PoolValidateReply == JsonObj("none", {})
PoolDecideReply == JsonObj("none", {})

InitPools ==
    /\ apiKey = TRUE
    /\ files \in PoolFiles
    /\ pc = "idle"
    /\ http = [status |-> 0, detail |-> <<>>]
    /\ exTask = <<>>
    /\ exQueue = <<>>
    /\ clTask = <<>>
    /\ llmQueue = <<>>
    /\ docs = <<>>
    /\ hReply = <<>>
    /\ processed = <<>>
    /\ vReply = NoReply
    /\ validation = <<>>
    /\ dReply = NoReply
    /\ response = <<>>
    /\ extractCalls = 0
    /\ llmCalls = 0
    /\ dPrompt = <<>>
    /\ reqs = <<>>

\* The actions of the request, with the collaborators' answers restricted.
PoolExtractReturns(i) == ExtractReturns(i) /\ exTask'[i].reply = PoolText
PoolClassifyReturns(i) == ClassifyReturns(i) /\ clTask'[i].reply \in PoolClassifyReplies
PoolHandlerReturns == HandlerReturns /\ hReply'[Len(processed) + 1] = PoolBillReply
PoolValidateReturns == ValidateReturns /\ vReply' = PoolValidateReply
PoolDecideReturns == DecideReturns /\ dReply' = PoolDecideReply

NextPools ==
    \/ ResolveDependencies
    \/ Endpoint
    \/ \E i \in 1..MaxPoolFiles : ReadRaises(i)
    \/ \E i \in 1..MaxPoolFiles : ReadReturns(i)
    \/ \E i \in 1..MaxPoolFiles : PoolExtractReturns(i)
    \/ ExtractJoin
    \/ ExtractAbort
    \/ \E i \in 1..MaxPoolFiles : PoolClassifyReturns(i)
    \/ ClassifyJoin
    \/ PoolHandlerReturns
    \/ PoolValidateReturns
    \/ PoolDecideReturns

SpecPools == InitPools /\ [][NextPools]_vars

\* ------------------------------------------------------- concurrent requests

\* A specification of MaxRequests requests the process serves at once, each
\* of up to MaxReqFiles files. FastAPI resolves get_orchestrator for every
\* request, so each request has its own LLMService, PDFService and agents,
\* and process_claim keeps what it computes in locals. The variables of the
\* single request hold the request whose step is taken; reqs holds the other
\* requests as they stand, and a placeholder in the slot of the one at hand.
MaxRequests == 2
MaxReqFiles == 2

\* The uploads: one file a.pdf, or several files b.pdf.
ReqFiles ==
    { [i \in 1..n |-> <<IF n = 1 THEN "a" ELSE "b", ".", "p", "d", "f">>] :
        n \in 1..MaxReqFiles }

\* A request as it arrives: nothing resolved, nothing called.
NewRequest(fs) ==
    [files |-> fs, pc |-> "idle", http |-> [status |-> 0, detail |-> <<>>],
     exTask |-> <<>>, exQueue |-> <<>>, clTask |-> <<>>, llmQueue |-> <<>>,
     docs |-> <<>>, hReply |-> <<>>, processed |-> <<>>, vReply |-> NoReply,
     validation |-> <<>>, dReply |-> NoReply, response |-> <<>>,
     extractCalls |-> 0, llmCalls |-> 0, dPrompt |-> <<>>]

\* The slot of the request that the variables hold.
Here == [NewRequest(<<>>) EXCEPT !.pc = "here"]

\* The request that the variables hold: its services' executors, its
\* coroutine's locals and its answer.
Current ==
    [files |-> files, pc |-> pc, http |-> http,
     exTask |-> exTask, exQueue |-> exQueue, clTask |-> clTask, llmQueue |-> llmQueue,
     docs |-> docs, hReply |-> hReply, processed |-> processed, vReply |-> vReply,
     validation |-> validation, dReply |-> dReply, response |-> response,
     extractCalls |-> extractCalls, llmCalls |-> llmCalls, dPrompt |-> dPrompt]

\* A request that finds the documents of the request served before it.
Resumed_SharedDocs(own, other) == [own EXCEPT !.docs = other.docs]

\* What a request finds when a step of its own is next: its own services
\* and locals, nothing of the request that was served before it.
Resumed(own, other) == own

InitRequests ==
    /\ apiKey = TRUE
    /\ files \in ReqFiles
    /\ pc = "idle"
    /\ http = [status |-> 0, detail |-> <<>>]
    /\ exTask = <<>>
    /\ exQueue = <<>>
    /\ clTask = <<>>
    /\ llmQueue = <<>>
    /\ docs = <<>>
    /\ hReply = <<>>
    /\ processed = <<>>
    /\ vReply = NoReply
    /\ validation = <<>>
    /\ dReply = NoReply
    /\ response = <<>>
    /\ extractCalls = 0
    /\ llmCalls = 0
    /\ dPrompt = <<>>
    /\ \E fs \in [2..MaxRequests -> ReqFiles] :
         reqs = [k \in 1..MaxRequests |-> IF k = 1 THEN Here ELSE NewRequest(fs[k])]

\* The event loop or a worker thread turns to request k: the next step is
\* one of request k.
Switch(k) ==
    /\ k \in DOMAIN reqs
    /\ reqs[k].pc # "here"
    /\ LET c == CHOOSE j \in DOMAIN reqs : reqs[j].pc = "here"
           r == Resumed(reqs[k], Current)
       IN /\ reqs' = [reqs EXCEPT ![c] = Current, ![k] = Here]
          /\ files' = r.files
          /\ pc' = r.pc
          /\ http' = r.http
          /\ exTask' = r.exTask
          /\ exQueue' = r.exQueue
          /\ clTask' = r.clTask
          /\ llmQueue' = r.llmQueue
          /\ docs' = r.docs
          /\ hReply' = r.hReply
          /\ processed' = r.processed
          /\ vReply' = r.vReply
          /\ validation' = r.validation
          /\ dReply' = r.dReply
          /\ response' = r.response
          /\ extractCalls' = r.extractCalls
          /\ llmCalls' = r.llmCalls
          /\ dPrompt' = r.dPrompt
    /\ UNCHANGED apiKey

NextRequests ==
    \/ \E k \in 1..MaxRequests : Switch(k)
    \/ ResolveDependencies
    \/ Endpoint
    \/ \E i \in 1..MaxReqFiles : ReadRaises(i)
    \/ \E i \in 1..MaxReqFiles : ReadReturns(i)
    \/ \E i \in 1..MaxReqFiles : PoolExtractReturns(i)
    \/ ExtractJoin
    \/ ExtractAbort
    \/ \E i \in 1..MaxReqFiles : PoolClassifyReturns(i)
    \/ ClassifyJoin
    \/ PoolHandlerReturns
    \/ PoolValidateReturns
    \/ PoolDecideReturns

SpecRequests == InitRequests /\ [][NextRequests]_vars

\* ----------------------------------------------------------------------- claims

Returned == response # <<>>
Documents == response[1].documents

\* a is a contiguous part of b.
Contains(b, a) == \E k \in 0..(Len(b) - Len(a)) : SubSeq(b, k + 1, k + Len(a)) = a

\* A reply from which no JSON value can be read: the call raised, or the
\* text is not JSON.
Unparseable(reply) == reply.kind = "raise" \/ reply.fence = "open" \/ ~reply.json

\* C1: whatever the collaborators answer (the extractor and every LLM call
\* succeeding, failing, or returning malformed or out-of-range values), the
\* response process_claim returns holds exactly one record per uploaded file
\* (stated for the runs in which every upload could be read).
C1_OneRecordPerFile ==
    (Returned /\ Raised(exTask) = {}) => Len(Documents) = N

\* C2: the i-th record of a non-empty document list carries the i-th file's
\* name, as do the i-th extracted text and the i-th processed document the
\* list is built from, whatever the order the concurrent calls completed in.
C2_FilenameOrder ==
    /\ \A i \in DOMAIN docs : docs[i].filename = files[i]
    /\ \A i \in DOMAIN processed : processed[i].filename = files[i]
    /\ (Returned /\ Documents # <<>>) =>
         /\ Len(Documents) = N
         /\ \A i \in 1..N : Documents[i].filename = files[i]

\* C2's case: a response listing two documents of different names.
C2_Witness ==
    /\ Returned
    /\ Len(Documents) = 2
    /\ files[1] # files[2]

\* An exception escaped one of the stages: a read raised, _validate_claim
\* raised, _make_claim_decision raised, or _structure_response raised.
StageRaised ==
    \/ Raised(exTask) # {}
    \/ vReply # NoReply /\ ValidateClaim(vReply).raised
    \/ dReply # NoReply /\ MakeDecision(dReply).raised
    \/ /\ dReply # NoReply
       /\ ~MakeDecision(dReply).raised
       /\ StructureResponse(processed, validation[1], MakeDecision(dReply).val).raised

\* C3: process_claim never raises to the endpoint (a request that entered the
\* pipeline is answered 200 with a response), and when an exception escaped a
\* stage the response has no documents, validation_passed false, status
\* requires_review, confidence 0.0 and a reason that carries the error text.
C3_NeverRaises ==
    /\ (pc = "closed" /\ apiKey /\ FirstInvalid(files) = 0) =>
         (Returned /\ http.status = 200)
    /\ (Returned /\ StageRaised) =>
         /\ Documents = <<>>
         /\ ~response[1].validation.validation_passed
         /\ response[1].claim_decision.status = "requires_review"
         /\ response[1].claim_decision.confidence = 0
         /\ Len(response[1].claim_decision.reason) > 1
         /\ Head(response[1].claim_decision.reason) = "Processing error: "

\* C3's case: _structure_response, the last stage, raised and the run
\* returned.
C3_Witness ==
    /\ Returned
    /\ dReply # NoReply
    /\ ~MakeDecision(dReply).raised
    /\ StructureResponse(processed, validation[1], MakeDecision(dReply).val).raised

\* C4: a request with a file whose name does not end in .pdf is answered
\* with status 400 and a message that names the file.
C4_Rejected400 ==
    (pc = "closed" /\ apiKey /\ FirstInvalid(files) # 0) =>
        /\ http.status = 400
        /\ Contains(http.detail, files[FirstInvalid(files)])

\* C5: a request with a file whose name does not end in .pdf never enters the
\* pipeline: no file is read, no text extraction and no LLM call is made, and
\* it is not answered 200.
C5_NoCallsOnRejection ==
    (\E k \in 1..N : ~EndsWith(Lower(files[k]), DotPdf)) =>
        /\ extractCalls = 0
        /\ llmCalls = 0
        /\ exTask = <<>>
        /\ pc \in {"idle", "endpoint", "closed"}
        /\ http.status # 200

\* C5's case: the request was rejected for its second file, after a file
\* named .pdf.
C5_Witness ==
    /\ pc = "closed"
    /\ apiKey
    /\ N = 2
    /\ EndsWith(Lower(files[1]), DotPdf)
    /\ ~EndsWith(Lower(files[2]), DotPdf)
    /\ http.status >= 400

\* C6: an extraction failure of one document (its read raised, or the
\* extractor returned no text) leaves that document with text "" and does not
\* abort the batch: the run does not end in the error response because of it.
C6_ExtractionFailureContained ==
    \A i \in DOMAIN exTask :
        /\ (exTask[i].st = "done" /\ exTask[i].reply = NoneValue) => exTask[i].text = <<>>
        /\ exTask[i].st = "raised" => ~(Returned /\ Documents = <<>>)

\* A classification failure: the call raised, or what it returned is not JSON,
\* not an object, or an object without type or without confidence.
ClassifyFailed(reply) ==
    \/ Unparseable(reply)
    \/ ~reply.isObj
    \/ ~HasKey(reply.obj, "type")
    \/ ~HasKey(reply.obj, "confidence")

HandlerRaised(doc, reply) ==
    \/ ~ExtractData(reply).isObj
    \/ /\ doc.type.s = S("discharge_summary")
       /\ ValidateDischargeData(ExtractData(reply).obj).raised

IsErrorEntry(m) == Len(m) > 1 /\ Head(m) = "Processing error: "

\* C8: in the handler stage every document handled so far has its result at
\* its own position, and all have one when the stage ends; a document whose
\* handler raised is failed with the error message among its validation errors,
\* and every other document has the result its own classification and its own
\* extraction reply give.
C8_HandlerFailureContained ==
    pc \in {"process", "validate"} =>
        /\ Len(hReply) = Len(processed)
        /\ pc = "validate" => Len(processed) = N
        /\ \A j \in DOMAIN processed :
             /\ processed[j].filename = docs[j].filename
             /\ processed[j].classification_confidence = docs[j].confidence
             /\ IF ~IsRouted(docs[j]) THEN processed[j].processing_status = "skipped"
                ELSE IF HandlerRaised(docs[j], hReply[j])
                THEN /\ processed[j].processing_status = "failed"
                     /\ \E k \in DOMAIN processed[j].validation_errors :
                          IsErrorEntry(processed[j].validation_errors[k])
                ELSE /\ processed[j].processing_status
                           \in {"completed", "completed_with_warnings"}
                     /\ processed[j].type = docs[j].type.s[1]
                     /\ processed[j].extracted_data = ExtractData(hReply[j]).obj

\* C8's case: of two routed documents the first's handler raised and the
\* second completed.
C8_Witness ==
    /\ pc = "validate"
    /\ N = 2
    /\ IsRouted(docs[1])
    /\ HandlerRaised(docs[1], hReply[1])
    /\ processed[1].processing_status = "failed"
    /\ processed[2].processing_status = "completed"

\* C9: when an agent's extraction call fails or returns unparseable output,
\* or an exception is raised in its extraction or validation step, the
\* result is failed, with extracted_data {} and exactly one validation error.
C9_ExceptionGivesFailed ==
    pc \in {"process", "validate"} =>
        \A j \in DOMAIN processed :
            (IsRouted(docs[j]) /\ (Unparseable(hReply[j]) \/ HandlerRaised(docs[j], hReply[j])))
            => /\ processed[j].processing_status = "failed"
               /\ processed[j].extracted_data = {}
               /\ Len(processed[j].validation_errors) = 1

\* C10: when the validation call raises or returns malformed output, the
\* response still lists every document, has validation_passed false and
\* records the failure in data_quality_issues.
C10_ValidationFailureDegrades ==
    (pc = "closed" /\ vReply # NoReply /\ (Unparseable(vReply) \/ ~vReply.isObj)) =>
        /\ Returned
        /\ Len(Documents) = N
        /\ ~response[1].validation.validation_passed
        /\ response[1].validation.data_quality_issues # <<>>

\* The decision call failed: it raised, or what it returned is not JSON or
\* not an object.
DecisionFailed == dReply # NoReply /\ (Unparseable(dReply) \/ ~dReply.isObj)

\* C11: when the decision call raises or returns malformed output, the
\* response has status requires_review, confidence 0.0 and a manual-review
\* recommended action, and its documents, structured_data and validation are
\* those the earlier stages produced.
C11_DecisionFailureContained ==
    (pc = "closed" /\ DecisionFailed) =>
        /\ Returned
        /\ response[1].claim_decision.status = "requires_review"
        /\ response[1].claim_decision.confidence = 0
        /\ \E k \in DOMAIN response[1].claim_decision.recommended_actions :
             response[1].claim_decision.recommended_actions[k] = S("Manual review required")
        /\ Len(Documents) = Len(processed)
        /\ \A i \in DOMAIN Documents :
             /\ Documents[i].filename = processed[i].filename
             /\ Documents[i].extracted_data = processed[i].extracted_data
        /\ response[1].structured_data = StructuredData(processed, Len(processed))
        /\ response[1].validation = validation[1]

\* A confidence the service supplied outside [0, 1].
OutOfRange(v) == v.t = "num" /\ (v.n < 0 \/ v.n > 10)

\* C12: every confidence of a returned response lies in [0, 1], and a
\* confidence the service supplied outside [0, 1], for a document or for the
\* decision, does not turn the run into a failure: the response still lists
\* every document.
C12_ConfidencesClamped ==
    Returned =>
        /\ \A i \in DOMAIN Documents :
             Documents[i].confidence >= 0 /\ Documents[i].confidence <= 10
        /\ response[1].claim_decision.confidence >= 0
        /\ response[1].claim_decision.confidence <= 10
        /\ ( /\ dReply # NoReply
             /\ ~MakeDecision(dReply).raised
             /\ \E j \in DOMAIN processed : OutOfRange(processed[j].classification_confidence) )
           => Len(Documents) = N
        /\ ( /\ dReply.isObj
             /\ OutOfRange(Get(dReply.obj, "confidence"))
             /\ ValidStatus(GetOr(dReply.obj, "status", JStr(S("requires_review"))))
             /\ \A j \in DOMAIN processed : ValidConfidence(processed[j].classification_confidence) )
           => Len(Documents) = N

\* C13: without the credential no request is served: none is answered, so
\* none observes the missing credential as an error of its own.
C13_NoPerRequestCredentialError ==
    ~apiKey => (pc = "idle" /\ http.status = 0)

\* The last document record of type t, in input order.
LastOfType(t) ==
    CHOOSE i \in DOMAIN Documents :
        /\ Documents[i].type = t
        /\ \A j \in DOMAIN Documents : Documents[j].type = t => j <= i

\* C14: in a response that lists documents the keys of structured_data are
\* exactly the types other than unknown among the document records, each key
\* once, and the value under a type is the extracted_data of the last
\* document of that type.
C14_StructuredDataLastWins ==
    (Returned /\ Documents # <<>>) =>
        LET sd == response[1].structured_data
            types == {Documents[i].type : i \in DOMAIN Documents} \ {"unknown"}
        IN /\ {p[1] : p \in sd} = types
           /\ Cardinality(sd) = Cardinality(types)
           /\ \A p \in sd : p[2] = Documents[LastOfType(p[1])].extracted_data

\* C14's case: a response with two documents of one recognised type whose
\* extracted data differ.
C14_Witness ==
    /\ Returned
    /\ Len(Documents) = 2
    /\ Documents[1].type = Documents[2].type
    /\ Documents[1].type # "unknown"
    /\ Documents[1].extracted_data # Documents[2].extracted_data
    /\ Documents[2].extracted_data # {}

\* The classified type of a document is one of bill, discharge_summary and
\* id_card.
Recognised(doc) ==
    doc.type \in {JStr(S("bill")), JStr(S("discharge_summary")), JStr(S("id_card"))}

\* The documents an agent has been called for: the recognised ones among
\* those handled, and the one the loop waits for.
Dispatched ==
    {j \in DOMAIN docs :
        /\ Recognised(docs[j])
        /\ j <= Len(processed) \/ (pc = "process" /\ j = Len(processed) + 1)}

Statuses == {"completed", "completed_with_warnings", "failed", "skipped"}

\* C16: when the run did not fail, every document record of the response
\* carries a processing_status, the one of its ProcessingResult.
C16_StatusInResponse ==
    (Returned /\ Documents # <<>>) =>
        \A i \in DOMAIN Documents :
            IF "processing_status" \in DOMAIN Documents[i]
            THEN /\ Documents[i].processing_status \in Statuses
                 /\ Documents[i].processing_status = processed[i].processing_status
            ELSE FALSE

\* The result of document j as a function of what the collaborators answered
\* for that document alone: the extractor's text, the classification reply
\* and the extraction reply.
ClassifiedAlone(j) ==
    LET c == ClassifierProcess(files[j], clTask[j].reply).val
    IN [filename |-> files[j], text |-> TextOrEmpty(exTask[j].reply), type |-> c.type,
        confidence |-> c.confidence, reasoning |-> c.reasoning]

ResultAlone(j) ==
    IF IsRouted(ClassifiedAlone(j))
    THEN WithDocKeys(AgentProcess(ClassifiedAlone(j), hReply[j]), ClassifiedAlone(j))
    ELSE UnknownResult(ClassifiedAlone(j))

\* C17: the extracted_data and processing_status of every document are
\* determined by the file and by what the services answered for it, whatever
\* the order the concurrent calls completed in; so two runs over the same
\* files with the same deterministic services give the same records. The
\* document records of the response carry the same extracted_data.
C17_Deterministic ==
    /\ pc \in {"process", "validate"} =>
         \A j \in DOMAIN processed :
            /\ docs[j] = ClassifiedAlone(j)
            /\ processed[j].extracted_data = ResultAlone(j).extracted_data
            /\ processed[j].processing_status = ResultAlone(j).processing_status
    /\ (Returned /\ Documents # <<>>) =>
         /\ Len(Documents) = Len(processed)
         /\ \A i \in DOMAIN Documents :
              Documents[i].extracted_data = processed[i].extracted_data

\* C17's case: two documents of different types, both handled, the first
\* completed and the second with warnings.
C17_Witness ==
    /\ pc = "validate"
    /\ N = 2
    /\ docs[1].type = JStr(S("bill"))
    /\ docs[2].type = JStr(S("discharge_summary"))
    /\ processed[1].processing_status = "completed"
    /\ processed[2].processing_status = "completed_with_warnings"

\* The agent of the given type was called and its extraction call answered
\* with a JSON object.
AgentGotRecord(type) ==
    /\ pc = "agent_done"
    /\ docs[1].type = JStr(S(type))
    /\ hReply[1].kind = "text"
    /\ hReply[1].json
    /\ hReply[1].isObj

\* The record has the field: the key, with a value other than null.
Present(d, k) == HasKey(d, k) /\ Get(d, k) # JNull

\* C18: for an extracted bill record the validator returns exactly one error
\* for an absent hospital_name, one for an absent total_amount, one for an
\* absent date_of_service and one for a total_amount that is present but not
\* numeric, and no other error; a record without total_amount is completed
\* with warnings.
C18_BillValidation ==
    AgentGotRecord("bill") =>
        LET d == hReply[1].obj
        IN /\ processed[1].validation_errors =
                AppendIf(~Present(d, "hospital_name"), "Hospital name not found")
                \o AppendIf(~Present(d, "total_amount"), "Total amount not found")
                \o AppendIf(~Present(d, "date_of_service"), "Date of service not found")
                \o AppendIf(Present(d, "total_amount") /\ ~IsNumber(Get(d, "total_amount")),
                            "Invalid total amount format")
           /\ ~Present(d, "total_amount") =>
                processed[1].processing_status = "completed_with_warnings"

DateOrderError == S("Admission date is after discharge date")

\* Both dates of the record are present, as non-empty strings.
BothDates(d) ==
    /\ Get(d, "admission_date").t = "str"
    /\ Get(d, "admission_date").s # <<>>
    /\ Get(d, "discharge_date").t = "str"
    /\ Get(d, "discharge_date").s # <<>>

\* C19: for a discharge-summary record with both dates present the validator
\* reports the date-order error exactly when admission_date sorts lexically
\* after discharge_date; equal dates give no such error.
C19_DateOrder ==
    (AgentGotRecord("discharge_summary") /\ BothDates(hReply[1].obj)) =>
        LET d == hReply[1].obj
            reported == \E k \in DOMAIN processed[1].validation_errors :
                            processed[1].validation_errors[k] = DateOrderError
        IN /\ processed[1].processing_status # "failed"
           /\ reported <=> StrLess(Get(d, "discharge_date").s, Get(d, "admission_date").s)
           /\ Get(d, "admission_date") = Get(d, "discharge_date") => ~reported

\* C19's case: admission 2024-05-01, discharge 2024-04-01, and the error is
\* reported.
C19_Witness ==
    /\ AgentGotRecord("discharge_summary")
    /\ Get(hReply[1].obj, "admission_date") = Date(Y2024, <<"0", "5">>, <<"0", "1">>)
    /\ Get(hReply[1].obj, "discharge_date") = Date(Y2024, <<"0", "4">>, <<"0", "1">>)
    /\ \E k \in DOMAIN processed[1].validation_errors :
         processed[1].validation_errors[k] = DateOrderError

\* C20: when an agent's extraction and validation raise nothing, its
\* processing_status is completed if its validation errors are empty and
\* completed_with_warnings otherwise, and extracted_data is what the
\* extraction call returned.
C20_StatusFromErrors ==
    (pc = "agent_done" /\ ~HandlerRaised(docs[1], hReply[1])) =>
        /\ processed[1].processing_status \in {"completed", "completed_with_warnings"}
        /\ processed[1].processing_status = "completed"
             <=> processed[1].validation_errors = <<>>
        /\ processed[1].extracted_data = ExtractData(hReply[1]).obj
        /\ processed[1].type = docs[1].type.s[1]

\* C20's case: an ID card without its policy number, completed with warnings.
C20_Witness ==
    /\ AgentGotRecord("id_card")
    /\ ~HasKey(hReply[1].obj, "policy_number")
    /\ Present(hReply[1].obj, "patient_name")
    /\ processed[1].processing_status = "completed_with_warnings"
    /\ Len(processed[1].validation_errors) = 1

\* The extraction of document i has resolved; its classification has.
Extracted(i) == exTask[i].st = "done"
Classified(i) == clTask[i].st = "done"

\* C21: no classification call is made before every document's extraction
\* has resolved, no handler call before every document's classification has,
\* the validation call only when every document has its result, and the
\* decision call only after the validation call has resolved.
C21_StageBarriers ==
    /\ (\E i \in DOMAIN exTask : ~Extracted(i)) =>
          (clTask = <<>> /\ llmCalls = 0 /\ pc \in {"extract", "closed"})
    /\ pc = "classify" =>
          (Len(exTask) = N /\ Len(clTask) = N /\ \A i \in 1..N : Extracted(i))
    /\ (\E i \in DOMAIN clTask : ~Classified(i)) =>
          (hReply = <<>> /\ processed = <<>> /\ llmCalls = N /\ pc = "classify")
    /\ pc = "process" => (Len(clTask) = N /\ \A i \in 1..N : Classified(i))
    /\ pc = "process" => (vReply = NoReply /\ Len(processed) < N)
    /\ pc = "validate" =>
          (Len(processed) = N /\ vReply = NoReply /\ dReply = NoReply
           /\ \A i \in 1..N : Classified(i))
    /\ pc = "decide" => (vReply # NoReply /\ validation # <<>> /\ dReply = NoReply)
    /\ dReply # NoReply => (vReply # NoReply /\ Len(processed) = N)

\* C21's case: in the classification stage of two documents the second has
\* resolved before the first, and the stage still waits.
C21_Witness ==
    /\ pc = "classify"
    /\ N = 2
    /\ clTask[2].st = "done"
    /\ clTask[1].st = "running"
    /\ processed = <<>>

Unresolved(tasks) == {i \in DOMAIN tasks : tasks[i].st \in {"reading", "queued", "running"}}

Queued(tasks) == {i \in DOMAIN tasks : tasks[i].st = "queued"}
Waiting(queue) == {queue[k] : k \in DOMAIN queue}

\* The LLM calls of the run that a worker is executing: the classification
\* calls that run, and the one call the later stages await.
LlmExecuting ==
    Cardinality(Running(clTask))
        + (IF pc \in {"process", "validate", "decide"} THEN 1 ELSE 0)

\* C23: within one run at most 3 extraction calls and at most 5 LLM calls
\* execute at any time; the calls beyond that wait, in the queue of their own
\* pool and only while that pool has all its workers busy.
C23_PoolBounds ==
    /\ Cardinality(Running(exTask)) <= PdfWorkers
    /\ LlmExecuting <= LlmWorkers
    /\ Waiting(exQueue) = Queued(exTask)
    /\ Waiting(llmQueue) = Queued(clTask)
    /\ Queued(exTask) # {} => Cardinality(Running(exTask)) = PdfWorkers
    /\ Queued(clTask) # {} => Cardinality(Running(clTask)) = LlmWorkers

\* C23's case: a run of more documents than either pool has workers, whose
\* extraction calls all went through the pool of 3, has 5 classification
\* calls executing and the others waiting.
C23_Witness ==
    /\ N > LlmWorkers
    /\ pc = "classify"
    /\ extractCalls = N
    /\ Cardinality(Running(clTask)) = LlmWorkers
    /\ Queued(clTask) # {}

\* Request k of the concurrent requests, wherever it is held.
View(k) == IF reqs[k].pc = "here" THEN Current ELSE reqs[k]

ExtractingIn(k) == Cardinality(Running(View(k).exTask))
LlmExecutingIn(k) ==
    Cardinality(Running(View(k).clTask))
        + (IF View(k).pc \in {"process", "validate", "decide"} THEN 1 ELSE 0)

RECURSIVE TotalExtracting(_)
TotalExtracting(n) == IF n = 0 THEN 0 ELSE ExtractingIn(n) + TotalExtracting(n - 1)
RECURSIVE TotalLlmExecuting(_)
TotalLlmExecuting(n) == IF n = 0 THEN 0 ELSE LlmExecutingIn(n) + TotalLlmExecuting(n - 1)

\* C24: over all the requests the process serves at once, at most 5 LLM calls
\* and at most 3 text extractions execute at any time.
C24_PoolsProcessWide ==
    /\ TotalExtracting(Len(reqs)) <= PdfWorkers
    /\ TotalLlmExecuting(Len(reqs)) <= LlmWorkers

\* What request r's own files and the answers to its own calls determine:
\* the classified document j, its handler result, and the documents the
\* request works on at each stage.
OwnClassified(r, j) ==
    LET c == ClassifierProcess(r.files[j], r.clTask[j].reply).val
    IN [filename |-> r.files[j], text |-> TextOrEmpty(r.exTask[j].reply), type |-> c.type,
        confidence |-> c.confidence, reasoning |-> c.reasoning]

OwnResult(r, j) ==
    IF IsRouted(OwnClassified(r, j))
    THEN WithDocKeys(AgentProcess(OwnClassified(r, j), r.hReply[j]), OwnClassified(r, j))
    ELSE UnknownResult(OwnClassified(r, j))

OwnDocs(r) ==
    IF r.pc = "classify" \/ (r.pc = "closed" /\ r.clTask # <<>>)
    THEN ExtractedTexts(r.files, r.exTask)
    ELSE IF r.pc \in {"process", "validate"}
    THEN [j \in 1..Len(r.files) |-> OwnClassified(r, j)]
    ELSE <<>>

OwnResponse(r) ==
    IF Raised(r.exTask) # {} THEN ErrorResponse(S("read failed"))
    ELSE StructureResponse(r.processed, ValidateClaim(r.vReply).val,
                           MakeDecision(r.dReply).val).val

\* C25: for each of the requests served at once or one after the other, the
\* documents it works on, the results of its handlers, and the documents,
\* structured_data, validation and decision it returns are those its own
\* files and the answers to its own calls determine, whatever the other
\* request uploaded, and whether the other request failed or returned.
C25_Stateless ==
    \A k \in DOMAIN reqs :
        LET r == View(k)
        IN /\ r.docs = OwnDocs(r)
           /\ r.pc \in {"process", "validate"} =>
                \A j \in DOMAIN r.processed : r.processed[j] = OwnResult(r, j)
           /\ (r.pc = "closed" /\ r.http.status = 200) => r.response = << OwnResponse(r) >>

\* C25's case: two requests over different files have both been answered,
\* one with the error response after a read failed and the other with its
\* documents.
C25_Witness ==
    \E k1, k2 \in DOMAIN reqs :
        /\ View(k1).files # View(k2).files
        /\ View(k1).pc = "closed"
        /\ View(k1).response = << ErrorResponse(S("read failed")) >>
        /\ View(k2).pc = "closed"
        /\ View(k2).http.status = 200
        /\ View(k2).response[1].documents # <<>>

\* C26: the run returns only after every call it issued has resolved (there
\* is no timeout), and it returns at most one response.
C26_ReturnsAfterAllCalls ==
    /\ Len(response) <= 1
    /\ Returned => (Unresolved(exTask) = {} /\ Unresolved(clTask) = {})

\* The documents of the run that were routed to an agent.
Routed == {j \in DOMAIN processed : processed[j].processing_status # "skipped"}

\* C27: a run that does not take the fatal path has called the extractor
\* once per document and the LLM once per document for classification, once
\* per routed document, once for validation and once for the decision; the
\* decision call is made with the ValidationResult of the one validation call
\* and with every document's processing_status.
C27_OneCallEach ==
    /\ pc = "classify" => llmCalls = N
    /\ pc = "decide" => llmCalls = N + Cardinality(Routed) + 2
    /\ (Returned /\ Documents # <<>>) =>
         /\ extractCalls = N
         /\ llmCalls = N + Cardinality(Routed) + 2
    /\ dPrompt # <<>> =>
         /\ Len(dPrompt) = 1
         /\ vReply # NoReply
         /\ dPrompt[1].validation = ValidateClaim(vReply).val
         /\ Len(dPrompt[1].documents) = N
         /\ \A j \in 1..N :
              /\ dPrompt[1].documents[j].status = processed[j].processing_status
              /\ dPrompt[1].documents[j].filename = files[j]

\* C27's case: a run of two documents, one skipped and one routed and failed,
\* that returned its documents.
C27_Witness ==
    /\ Returned
    /\ Len(Documents) = 2
    /\ processed[1].processing_status = "skipped"
    /\ processed[2].processing_status = "failed"
    /\ llmCalls = 5

\* The object a service's answer parsed to; {} when the call raised or the
\* answer was no JSON object.
Parsed(reply) == IF Unparseable(reply) \/ ~reply.isObj THEN {} ELSE reply.obj

\* validation_passed and status of the response are safety-biased: true,
\* approved and rejected only when the answer said so.
OnlyIfAnswered ==
    /\ response[1].validation.validation_passed =>
         /\ HasKey(Parsed(vReply), "validation_passed")
         /\ ValidBool(Get(Parsed(vReply), "validation_passed"))
         /\ BoolValue(Get(Parsed(vReply), "validation_passed"))
    /\ response[1].claim_decision.status \in {"approved", "rejected"} =>
         Get(Parsed(dReply), "status") = JStr(S(response[1].claim_decision.status))
    /\ ~HasKey(Parsed(vReply), "validation_passed") =>
         ~response[1].validation.validation_passed

=============================================================================
